---- MODULE Spec2Model ----
(***************************************************************************)
(* State-machine model of the LifePlan front end:                          *)
(*   - RetirementEngine (src/components/RetirementEngine.tsx): the five    *)
(*     useState cells, runSimulation, addLog, the scripted timeline of     *)
(*     setTimeout callbacks, the strategy cards and the dashboard overlay, *)
(*     and the useEffect that scrolls the terminal;                        *)
(*   - LongevityWidget (src/components/LongevityWidget.tsx): isHovered,    *)
(*     isScanning, triggerScan and its 1500 ms timer;                      *)
(*   - the window's timer list and millisecond clock that both use;        *)
(*   - the SVG-generation tool, of which the sources hold the types only   *)
(*     (src/unnamed/part_000): its operations follow its description.      *)
(*                                                                         *)
(* One action is one browser task: a DOM event handler or a timer callback *)
(* together with the React render and effects its state updates cause.     *)
(* The updates of one task are batched into one render, so the handlers of *)
(* the next task close over the values the previous task committed.        *)
(***************************************************************************)
EXTENDS Integers, Sequences, FiniteSets, TLC

VARIABLES
    state,            \* useState<EngineState>            (RetirementEngine)
    logs,             \* useState<EngineLog[]>            (RetirementEngine)
    activeEngine,     \* useState<string | null>          (RetirementEngine)
    selectedStrategy, \* useState<StrategyDetails | null> (RetirementEngine)
    inputStep,        \* useState(0)                      (RetirementEngine)
    isHovered,        \* useState(false)                  (LongevityWidget)
    isScanning,       \* useState(false)                  (LongevityWidget)
    explored,         \* the calls of onExplore (App's scrollToEngine) since the
                      \* last call of triggerScan
    timers,           \* the window's pending setTimeout timers, in registration order
    now,              \* Date.now(), in ms since the page was loaded
    scrolledIn,       \* the EngineState values of the renders whose effect called
                      \* terminalEndRef.current.scrollIntoView
    run,              \* what the current run did so far: one entry per addLog call
    lastEvent,        \* the handler or callback that ran last
    status,           \* GenerationStatus of the SVG tool      (src/unnamed/part_000)
    currentSvg,       \* GeneratedSvg | null                   (SVG tool)
    error,            \* ApiError | null                       (SVG tool)
    requests,         \* the prompts the user submitted, in order
    apiLog            \* the prompts sent to the AI API, one per network call

vars == <<state, logs, activeEngine, selectedStrategy, inputStep, isHovered,
          isScanning, explored, timers, now, scrolledIn, run, lastEvent,
          status, currentSvg, error, requests, apiLog>>

engineVars == <<state, logs, activeEngine, selectedStrategy, inputStep>>
widgetVars == <<isHovered, isScanning, explored>>
svgVars == <<status, currentSvg, error, requests, apiLog>>

(***************************************************************************)
(* Bounds of the model.                                                    *)
(***************************************************************************)
\* The clock stops at MaxTime: no timer is registered that would be due later.
MaxTime == 19000
\* A timer callback runs at its due time or up to MaxLate ms after it.
MaxLate == 400

(***************************************************************************)
(* Values.                                                                 *)
(***************************************************************************)
\* JavaScript null, for activeEngine (a string otherwise)
null == "null"
\* JavaScript null, for selectedStrategy (a StrategyDetails record otherwise)
NoStrategy == [id |-> "null"]

EngineState == {"idle", "processing", "complete"}

\* enum GenerationStatus
GenerationStatus == {"IDLE", "LOADING", "SUCCESS", "ERROR"}
\* JavaScript null, for currentSvg (a GeneratedSvg record otherwise)
NoSvg == [id |-> "null"]
\* JavaScript null, for error (an ApiError record otherwise)
NoError == [message |-> "null"]

(***************************************************************************)
(* MOCK DATA FOR STRATEGIES.  successRate is kept in tenths of a percent   *)
(* (99.8 is 998); every other field is the literal of the source.          *)
(***************************************************************************)
STRATEGIES ==
    [conservative |->
        [id |-> "conservative",
         title |-> "Principal Protection",
         description |-> "Prioritizes capital preservation with stable, inflation-adjusted income streams. Ideal for risk-averse legacy planning.",
         color |-> "emerald",
         riskLevel |-> "Low",
         successRate |-> 998,
         monthlyIncome |-> "$6,200",
         endAge |-> 89,
         assets |-> <<
            [name |-> "Bonds/Fixed Income", value |-> 60, color |-> "#10b981"],
            [name |-> "Blue Chip Stocks", value |-> 30, color |-> "#34d399"],
            [name |-> "Cash Reserves", value |-> 10, color |-> "#6ee7b7"] >>,
         projection |-> <<
            [year |-> "2025", value |-> 100, baseline |-> 100],
            [year |-> "2030", value |-> 125, baseline |-> 135],
            [year |-> "2035", value |-> 145, baseline |-> 180],
            [year |-> "2040", value |-> 160, baseline |-> 240],
            [year |-> "2045", value |-> 170, baseline |-> 310],
            [year |-> "2050", value |-> 165, baseline |-> 390] >>],
     balanced |->
        [id |-> "balanced",
         title |-> "Balanced Growth",
         description |-> "The optimal blend of growth and income. Dynamically adjusts allocation based on market volatility and personal health events.",
         color |-> "blue",
         riskLevel |-> "Medium",
         successRate |-> 945,
         monthlyIncome |-> "$8,400",
         endAge |-> 92,
         assets |-> <<
            [name |-> "Global Equities", value |-> 50, color |-> "#3b82f6"],
            [name |-> "Real Estate / REITS", value |-> 20, color |-> "#60a5fa"],
            [name |-> "Govt Bonds", value |-> 25, color |-> "#93c5fd"],
            [name |-> "Crypto/Alt", value |-> 5, color |-> "#bfdbfe"] >>,
         projection |-> <<
            [year |-> "2025", value |-> 100, baseline |-> 100],
            [year |-> "2030", value |-> 140, baseline |-> 135],
            [year |-> "2035", value |-> 190, baseline |-> 180],
            [year |-> "2040", value |-> 250, baseline |-> 240],
            [year |-> "2045", value |-> 310, baseline |-> 310],
            [year |-> "2050", value |-> 290, baseline |-> 390] >>],
     aggressive |->
        [id |-> "aggressive",
         title |-> "Legacy Builder",
         description |-> "Maximum growth potential for leaving a substantial inheritance or charitable foundation. High volatility tolerance required.",
         color |-> "amber",
         riskLevel |-> "High",
         successRate |-> 882,
         monthlyIncome |-> "$11,200",
         endAge |-> 96,
         assets |-> <<
            [name |-> "Growth Stocks", value |-> 60, color |-> "#f59e0b"],
            [name |-> "Emerging Markets", value |-> 25, color |-> "#fbbf24"],
            [name |-> "Venture/PE", value |-> 15, color |-> "#fcd34d"] >>,
         projection |-> <<
            [year |-> "2025", value |-> 100, baseline |-> 100],
            [year |-> "2030", value |-> 160, baseline |-> 135],
            [year |-> "2035", value |-> 240, baseline |-> 180],
            [year |-> "2040", value |-> 380, baseline |-> 240],
            [year |-> "2045", value |-> 550, baseline |-> 310],
            [year |-> "2050", value |-> 720, baseline |-> 390] >>]]

\* The keys of STRATEGIES, one StrategyCard each
StrategyKeys == {"conservative", "balanced", "aggressive"}

(***************************************************************************)
(* The timeline of runSimulation.  An entry is the delay t and what its    *)
(* action does: the argument of setInputStep (NoStep when the action does  *)
(* not call it), of setActiveEngine and of setState (keep when the action  *)
(* does not call them), and the two arguments of its addLog call.          *)
(***************************************************************************)
NoStep == -1
keep == "keep"

timeline == <<
    [t |-> 500,  setInputStep |-> 1, setActiveEngine |-> keep, setState |-> keep,
     message |-> "Reading Personal Bio (Age, ZIP, Family History)...", type |-> "process"],
    [t |-> 1200, setInputStep |-> 2, setActiveEngine |-> keep, setState |-> keep,
     message |-> "Analyzing Lifestyle: Diet, Exercise, Sleep patterns...", type |-> "process"],
    [t |-> 2000, setInputStep |-> 3, setActiveEngine |-> keep, setState |-> keep,
     message |-> "Syncing Financials: Income, 401k, Debts...", type |-> "process"],
    [t |-> 2800, setInputStep |-> 4, setActiveEngine |-> keep, setState |-> keep,
     message |-> "Data Stream Verified & Normalized.", type |-> "success"],
    [t |-> 3200, setInputStep |-> NoStep, setActiveEngine |-> "lookup", setState |-> keep,
     message |-> "Lookup Engine: Fetching actuarial tables & market data...", type |-> "process"],
    [t |-> 4000, setInputStep |-> NoStep, setActiveEngine |-> "mortality", setState |-> keep,
     message |-> "Mortality Engine: Calculating biological longevity...", type |-> "process"],
    [t |-> 4800, setInputStep |-> NoStep, setActiveEngine |-> "income", setState |-> keep,
     message |-> "Income Engine: Projecting salary growth curves...", type |-> "process"],
    [t |-> 5600, setInputStep |-> NoStep, setActiveEngine |-> "expenses", setState |-> keep,
     message |-> "Expenses Engine: Modeling healthcare & lifestyle inflation...", type |-> "process"],
    [t |-> 6400, setInputStep |-> NoStep, setActiveEngine |-> "fees", setState |-> keep,
     message |-> "Fee Engine: Optimizing tax-drag & expense ratios...", type |-> "process"],
    [t |-> 7200, setInputStep |-> NoStep, setActiveEngine |-> "peers", setState |-> keep,
     message |-> "Peer Engine: Benchmarking against top 10% cohort...", type |-> "process"],
    [t |-> 8000, setInputStep |-> NoStep, setActiveEngine |-> "decum", setState |-> keep,
     message |-> "Decumulation Engine: Generating withdrawal strategies...", type |-> "process"],
    [t |-> 9000, setInputStep |-> NoStep, setActiveEngine |-> null, setState |-> "complete",
     message |-> "Strategic Roadmap Generated.", type |-> "success"] >>

\* The delay of triggerScan's timer
ScanDelay == 1500

\* The largest delay of the timeline: a run launched at time n is over by n + this
RECURSIVE MaxDelay(_)
MaxDelay(k) ==
    IF k = 0 THEN 0
    ELSE LET m == MaxDelay(k - 1)
         IN  IF timeline[k].t > m THEN timeline[k].t ELSE m

(***************************************************************************)
(* addLog: setLogs(prev => [...prev.slice(-4), {id, message, type}]).      *)
(***************************************************************************)
\* prev.slice(0, n): the first n elements of prev
SliceFirst(prev, n) ==
    IF Len(prev) <= n THEN prev ELSE SubSeq(prev, 1, n)

\* prev.slice(-n): the last n elements of prev, all of prev when it is shorter
SliceLast(prev, n) ==
    IF Len(prev) <= n THEN prev ELSE SubSeq(prev, Len(prev) - n + 1, Len(prev))

\* Date.now().toString()
LogId(ms) == ToString(ms)

\* addLog with prev.slice(-5)
addLogKeepFive(prev, ms, message, type) ==
    Append(SliceLast(prev, 5), [id |-> LogId(ms), message |-> message, type |-> type])

addLog(prev, ms, message, type) ==
    Append(SliceLast(prev, 4), [id |-> LogId(ms), message |-> message, type |-> type])

(***************************************************************************)
(* useEffect(() => { if (state === 'processing' && terminalEndRef.current) *)
(*   terminalEndRef.current.scrollIntoView(...) }, [logs, state]).         *)
(* The effect runs after the first render and after every render in which  *)
(* logs or state changed; terminalEndRef.current is the <div> below the    *)
(* log lines, which every render mounts.  The result is scrolledIn after   *)
(* the render.                                                             *)
(***************************************************************************)
\* the effect without the test of state
ScrollEffectAlways(seen, depsChanged, renderedState) ==
    IF depsChanged THEN seen \cup {renderedState} ELSE seen

ScrollEffect(seen, depsChanged, renderedState) ==
    IF depsChanged /\ renderedState = "processing"
    THEN seen \cup {renderedState}
    ELSE seen

\* One entry of run: the engine's values as an addLog call leaves them
RunEntry(st, step, engine, message, type) ==
    [state |-> st, inputStep |-> step, activeEngine |-> engine,
     message |-> message, type |-> type]

Event(op, arg) == [op |-> op, arg |-> arg]

(***************************************************************************)
(* The state after the first render of App.                                *)
(***************************************************************************)
Init ==
    /\ state = "idle"
    /\ logs = <<>>
    /\ activeEngine = null
    /\ selectedStrategy = NoStrategy
    /\ inputStep = 0
    /\ isHovered = FALSE
    /\ isScanning = FALSE
    /\ explored = 0
    /\ timers = <<>>
    /\ now = 0
    /\ scrolledIn = ScrollEffect({}, TRUE, "idle")
    /\ run = <<>>
    /\ lastEvent = Event("mount", "")
    /\ status = "IDLE"
    /\ currentSvg = NoSvg
    /\ error = NoError
    /\ requests = <<>>
    /\ apiLog = <<>>

(***************************************************************************)
(* The window's timers.  setTimeout(action, delay) at time now appends a   *)
(* timer due at now + delay.  A timer's callback runs no earlier than its  *)
(* due time, and after every timer that was registered before it with a    *)
(* delay no longer than its own.                                           *)
(***************************************************************************)
Timer(kind, idx, delay) ==
    [kind |-> kind, idx |-> idx, delay |-> delay, due |-> now + delay]

CanFire(k) ==
    /\ timers[k].due <= now
    /\ \A j \in 1..(k - 1) : timers[j].delay > timers[k].delay

Remove(s, k) == SubSeq(s, 1, k - 1) \o SubSeq(s, k + 1, Len(s))

\* the timeline with the delays of two neighbouring actions exchanged
SwapDelay(i) == IF i = 6 THEN 7 ELSE IF i = 7 THEN 6 ELSE i
ScheduleTimelineSwapped ==
    timers \o [i \in 1..Len(timeline) |-> Timer("timeline", i, timeline[SwapDelay(i)].t)]

\* the timeline without its last action
ScheduleTimelineSkipLast ==
    timers \o [i \in 1..(Len(timeline) - 1) |-> Timer("timeline", i, timeline[i].t)]

\* the timeline with t: 2500 for the action of the lookup module
ScheduleTimelineLookupEarly ==
    timers \o [i \in 1..Len(timeline) |->
                  Timer("timeline", i, IF i = 5 THEN 2500 ELSE timeline[i].t)]

\* the timeline with t: 900 for its last action
ScheduleTimelineShortLast ==
    timers \o [i \in 1..Len(timeline) |->
                  Timer("timeline", i, IF i = Len(timeline) THEN 900 ELSE timeline[i].t)]

\* timeline.forEach(({ t, action }) => setTimeout(action, t))
ScheduleTimeline ==
    timers \o [i \in 1..Len(timeline) |-> Timer("timeline", i, timeline[i].t)]

(***************************************************************************)
(* runSimulation, the onClick of the control button.                       *)
(***************************************************************************)
\* a click during processing that resets and clears the timers
IgnoreAsCancel ==
    /\ state' = "idle"
    /\ logs' = <<>>
    /\ activeEngine' = null
    /\ inputStep' = 0
    /\ selectedStrategy' = NoStrategy
    /\ timers' = SelectSeq(timers, LAMBDA x : x.kind # "timeline")
    /\ UNCHANGED <<scrolledIn, run>>

\* if (state === 'processing') return;
Ignore ==
    UNCHANGED <<engineVars, timers, scrolledIn, run>>

\* a reset that leaves inputStep as it is
ResetKeepsInputStep ==
    /\ state' = "idle"
    /\ logs' = <<>>
    /\ activeEngine' = null
    /\ selectedStrategy' = NoStrategy
    /\ scrolledIn' = ScrollEffect(scrolledIn, TRUE, "idle")
    /\ UNCHANGED <<inputStep, timers, run>>

\* a reset that leaves the dashboard open
ResetKeepsStrategy ==
    /\ state' = "idle"
    /\ logs' = <<>>
    /\ activeEngine' = null
    /\ inputStep' = 0
    /\ scrolledIn' = ScrollEffect(scrolledIn, TRUE, "idle")
    /\ UNCHANGED <<selectedStrategy, timers, run>>

\* a reset that sets the state of a launch
ResetToProcessing ==
    /\ state' = "processing"
    /\ logs' = <<>>
    /\ activeEngine' = null
    /\ inputStep' = 0
    /\ selectedStrategy' = NoStrategy
    /\ scrolledIn' = ScrollEffect(scrolledIn, TRUE, "processing")
    /\ UNCHANGED <<timers, run>>

\* a reset that leaves the terminal as it is
ResetKeepsLogs ==
    /\ state' = "idle"
    /\ activeEngine' = null
    /\ inputStep' = 0
    /\ selectedStrategy' = NoStrategy
    /\ scrolledIn' = ScrollEffect(scrolledIn, TRUE, "idle")
    /\ UNCHANGED <<logs, timers, run>>

\* the branch of state === 'complete'
Reset ==
    /\ state' = "idle"
    /\ logs' = <<>>
    /\ activeEngine' = null
    /\ inputStep' = 0
    /\ selectedStrategy' = NoStrategy
    /\ scrolledIn' = ScrollEffect(scrolledIn, TRUE, "idle")
    /\ UNCHANGED <<timers, run>>

\* a launch that does not log its first line
LaunchNoInitLog ==
    /\ now + MaxDelay(Len(timeline)) <= MaxTime
    /\ state' = "processing"
    /\ timers' = ScheduleTimeline
    /\ scrolledIn' = ScrollEffect(scrolledIn, TRUE, "processing")
    /\ run' = << >>
    /\ UNCHANGED <<logs, activeEngine, inputStep, selectedStrategy>>

\* the rest of runSimulation: a launch
Launch ==
    /\ now + MaxDelay(Len(timeline)) <= MaxTime
    /\ state' = "processing"
    /\ logs' = addLog(logs, now, "Initializing LifePlan Core System...", "info")
    /\ timers' = ScheduleTimeline
    /\ scrolledIn' = ScrollEffect(scrolledIn, TRUE, "processing")
    /\ run' = << RunEntry("processing", inputStep, activeEngine,
                          "Initializing LifePlan Core System...", "info") >>
    /\ UNCHANGED <<activeEngine, inputStep, selectedStrategy>>

\* runSimulation without its first line
RunSimulationNoGuard ==
    /\ lastEvent' = Event("runSimulation", state)
    /\ UNCHANGED <<widgetVars, svgVars, now>>
    /\ IF state = "complete" THEN Reset ELSE Launch

RunSimulation ==
    /\ lastEvent' = Event("runSimulation", state)
    /\ UNCHANGED <<widgetVars, svgVars, now>>
    /\ IF state = "processing" THEN Ignore
       ELSE IF state = "complete" THEN Reset
       ELSE Launch

(***************************************************************************)
(* The callback of timeline timer k: the action of its timeline entry.     *)
(***************************************************************************)
TimelineAction(k) ==
    /\ k \in DOMAIN timers
    /\ timers[k].kind = "timeline"
    /\ CanFire(k)
    /\ LET a == timeline[timers[k].idx]
       IN  /\ inputStep' = (IF a.setInputStep = NoStep THEN inputStep ELSE a.setInputStep)
           /\ activeEngine' =
                 (IF a.setActiveEngine = keep THEN activeEngine ELSE a.setActiveEngine)
           /\ state' = (IF a.setState = keep THEN state ELSE a.setState)
           /\ logs' = addLog(logs, now, a.message, a.type)
           /\ run' = Append(run, RunEntry(state', inputStep', activeEngine',
                                          a.message, a.type))
           /\ lastEvent' = Event("timeline", "")
    /\ scrolledIn' = ScrollEffect(scrolledIn, TRUE, state')
    /\ timers' = Remove(timers, k)
    /\ UNCHANGED <<selectedStrategy, widgetVars, svgVars, now>>

(***************************************************************************)
(* The strategy cards and the dashboard overlay.  The three cards are      *)
(* rendered in every state (the column is only made transparent while      *)
(* state is not 'complete'); the two close buttons are rendered while a    *)
(* strategy is selected.                                                   *)
(***************************************************************************)
\* every card opening the highlighted strategy
CardStrategyHighlighted(key) == STRATEGIES["balanced"]

\* onClick={() => setSelectedStrategy(STRATEGIES.<key>)}
CardStrategy(key) == STRATEGIES[key]

SelectStrategy(key) ==
    /\ selectedStrategy' = CardStrategy(key)
    /\ lastEvent' = Event("selectStrategy", key)
    /\ UNCHANGED <<state, logs, activeEngine, inputStep, widgetVars, svgVars, timers, now,
                   scrolledIn, run>>

\* onClick={() => setSelectedStrategy(null)}: the X button and 'Close View'
CloseButtons == {"X", "Close View"}

\* a close button that also resets the engine
CloseDashboardResets(button) ==
    /\ selectedStrategy # NoStrategy
    /\ selectedStrategy' = NoStrategy
    /\ state' = "idle"
    /\ logs' = <<>>
    /\ activeEngine' = null
    /\ inputStep' = 0
    /\ lastEvent' = Event("closeDashboard", "")
    /\ UNCHANGED <<widgetVars, svgVars, timers, now, scrolledIn, run>>

CloseDashboard(button) ==
    /\ selectedStrategy # NoStrategy
    /\ selectedStrategy' = NoStrategy
    /\ lastEvent' = Event("closeDashboard", "")
    /\ UNCHANGED <<state, logs, activeEngine, inputStep, widgetVars, svgVars, timers, now,
                   scrolledIn, run>>

(***************************************************************************)
(* LongevityWidget.                                                        *)
(***************************************************************************)
\* the two buttons with onClick={triggerScan} disabled={isScanning}
ScanButtons == {"Initialize Simulation", "teaser"}

\* the buttons without disabled={isScanning}
triggerScanNotDisabled(button) ==
    /\ now + ScanDelay <= MaxTime
    /\ isScanning' = TRUE
    /\ explored' = 0
    /\ timers' = Append(timers, Timer("scan", 0, ScanDelay))
    /\ lastEvent' = Event("triggerScan", "")
    /\ UNCHANGED <<engineVars, isHovered, svgVars, now, scrolledIn, run>>

\* onExplore() called by triggerScan itself, and no timer
triggerScanExploresAtOnce(button) ==
    /\ ~isScanning
    /\ now + ScanDelay <= MaxTime
    /\ isScanning' = FALSE
    /\ explored' = 1
    /\ lastEvent' = Event("triggerScan", "")
    /\ UNCHANGED <<engineVars, isHovered, svgVars, timers, now, scrolledIn, run>>

triggerScan(button) ==
    /\ ~isScanning
    /\ now + ScanDelay <= MaxTime
    /\ isScanning' = TRUE
    /\ explored' = 0
    /\ timers' = Append(timers, Timer("scan", 0, ScanDelay))
    /\ lastEvent' = Event("triggerScan", "")
    /\ UNCHANGED <<engineVars, isHovered, svgVars, now, scrolledIn, run>>

\* () => { setIsScanning(false); onExplore(); } where onExplore is App's
\* scrollToEngine, which scrolls the engine section into view
\* an onExplore that starts the engine when it is idle
ScanTimeoutStartsEngine(k) ==
    /\ k \in DOMAIN timers
    /\ timers[k].kind = "scan"
    /\ CanFire(k)
    /\ isScanning' = FALSE
    /\ explored' = explored + 1
    /\ timers' = Remove(timers, k)
    /\ lastEvent' = Event("scanTimeout", "")
    /\ state' = (IF state = "idle" THEN "processing" ELSE state)
    /\ UNCHANGED <<logs, activeEngine, inputStep, selectedStrategy, isHovered,
                   svgVars, now, scrolledIn, run>>

ScanTimeout(k) ==
    /\ k \in DOMAIN timers
    /\ timers[k].kind = "scan"
    /\ CanFire(k)
    /\ isScanning' = FALSE
    /\ explored' = explored + 1
    /\ timers' = Remove(timers, k)
    /\ lastEvent' = Event("scanTimeout", "")
    /\ UNCHANGED <<engineVars, isHovered, svgVars, now, scrolledIn, run>>

\* onMouseEnter={() => setIsHovered(true)}
MouseEnter ==
    /\ ~isHovered
    /\ isHovered' = TRUE
    /\ lastEvent' = Event("mouseEnter", "")
    /\ UNCHANGED <<engineVars, isScanning, explored, svgVars, timers, now, scrolledIn,
                   run>>

\* onMouseLeave={() => setIsHovered(false)}
MouseLeave ==
    /\ isHovered
    /\ isHovered' = FALSE
    /\ lastEvent' = Event("mouseLeave", "")
    /\ UNCHANGED <<engineVars, isScanning, explored, svgVars, timers, now, scrolledIn,
                   run>>

(***************************************************************************)
(* Time passes.  While a timer is pending the clock advances to the        *)
(* earliest due time (Tick: every callback runs when it is due), or past   *)
(* it to a later due time, as long as no pending timer becomes later than  *)
(* MaxLate (LateTick: the main thread was busy, the tab was throttled).    *)
(* No time passes while no timer is pending: the handlers read the clock   *)
(* only through addLog and setTimeout.                                     *)
(***************************************************************************)
Dues == { timers[k].due : k \in DOMAIN timers }

Tick ==
    /\ timers # <<>>
    /\ \A d \in Dues : d > now
    /\ now' \in Dues
    /\ \A d \in Dues : now' <= d
    /\ UNCHANGED <<engineVars, widgetVars, svgVars, timers, scrolledIn, run, lastEvent>>

LateTick ==
    /\ now' \in Dues
    /\ now' > now
    /\ \E d \in Dues : d < now'
    /\ \A d \in Dues : now' - d <= MaxLate
    /\ UNCHANGED <<engineVars, widgetVars, svgVars, timers, scrolledIn, run, lastEvent>>

Next ==
    \/ RunSimulation
    \/ \E k \in 1..Len(timers) : TimelineAction(k)
    \/ \E key \in StrategyKeys : SelectStrategy(key)
    \/ \E button \in CloseButtons : CloseDashboard(button)
    \/ \E button \in ScanButtons : triggerScan(button)
    \/ \E k \in 1..Len(timers) : ScanTimeout(k)
    \/ MouseEnter
    \/ MouseLeave
    \/ Tick

Spec == Init /\ [][Next]_vars

(***************************************************************************)
(* The event loop runs the callback of a timer that is due, and time       *)
(* passes while timers are waiting.                                        *)
(***************************************************************************)
TimerCallback ==
    \E k \in 1..Len(timers) : TimelineAction(k) \/ ScanTimeout(k)

LiveSpec == Spec /\ WF_vars(Tick) /\ WF_vars(TimerCallback)

(***************************************************************************)
(* The engine alone, with timers that may run late.                        *)
(***************************************************************************)
NextLate ==
    \/ RunSimulation
    \/ \E k \in 1..Len(timers) : TimelineAction(k)
    \/ \E key \in StrategyKeys : SelectStrategy(key)
    \/ \E button \in CloseButtons : CloseDashboard(button)
    \/ Tick
    \/ LateTick

LateSpec == Init /\ [][NextLate]_vars

(***************************************************************************)
(* The SVG-generation tool: a text prompt is forwarded to the generative   *)
(* AI API, the SVG of the answer is rendered, and the message of a failed  *)
(* network call is displayed.  One request is one network call.            *)
(***************************************************************************)
\* The user submits at most MaxRequests prompts.
MaxRequests == 3

Prompts == {"a red circle", "a blue square"}
SvgContents == {"<svg><circle/></svg>", "<svg><rect/></svg>"}
ErrorMessages == {"Failed to fetch", "Quota exceeded"}

engineAndWidget ==
    <<engineVars, widgetVars, timers, now, scrolledIn, run, lastEvent>>

\* the user submits a prompt: the tool forwards it to the API
GenerateSvg(prompt) ==
    /\ status # "LOADING"
    /\ Len(requests) < MaxRequests
    /\ status' = "LOADING"
    /\ error' = NoError
    /\ requests' = Append(requests, prompt)
    /\ apiLog' = Append(apiLog, prompt)
    /\ UNCHANGED <<currentSvg, engineAndWidget>>

\* the network call returns the SVG text: it is rendered
ApiSuccess(content) ==
    /\ status = "LOADING"
    /\ status' = "SUCCESS"
    /\ currentSvg' = [id |-> ToString(Len(requests)), content |-> content,
                      prompt |-> requests[Len(requests)], timestamp |-> now]
    /\ UNCHANGED <<error, requests, apiLog, engineAndWidget>>

\* a failure that sends the prompt to the API once more
ApiFailureRetries(message) ==
    /\ status = "LOADING"
    /\ Len(apiLog) <= MaxRequests
    /\ apiLog' = Append(apiLog, requests[Len(requests)])
    /\ UNCHANGED <<status, error, currentSvg, requests, engineAndWidget>>

\* the network call fails: its error message is displayed
ApiFailure(message) ==
    /\ status = "LOADING"
    /\ status' = "ERROR"
    /\ error' = [message |-> message]
    /\ UNCHANGED <<currentSvg, requests, apiLog, engineAndWidget>>

SvgNext ==
    \/ \E prompt \in Prompts : GenerateSvg(prompt)
    \/ \E content \in SvgContents : ApiSuccess(content)
    \/ \E message \in ErrorMessages : ApiFailure(message)

SvgSpec == Init /\ [][SvgNext]_vars

(***************************************************************************)
(* The charts of the dashboard, rendered while selectedStrategy is not     *)
(* null.  Positions of a sequence are counted from 1 here and from 0 in    *)
(* the source.                                                             *)
(***************************************************************************)
\* arr.reduce((acc, curr) => acc + curr.value, 0)
RECURSIVE SumValues(_)
SumValues(arr) ==
    IF arr = <<>> THEN 0
    ELSE SumValues(SubSeq(arr, 1, Len(arr) - 1)) + arr[Len(arr)].value

\* a segment that starts after its own value: arr.slice(0, i + 1)
ConicSegmentInclusive(arr, i) ==
    LET prev == SumValues(SubSeq(arr, 1, i))
    IN  [color |-> arr[i].color, from |-> prev, to |-> prev + arr[i].value]

\* the callback of assets.map for the element at position i:
\*   prev = arr.slice(0, i).reduce(...);  `${a.color} ${prev}% ${prev + a.value}%`
ConicSegment(arr, i) ==
    LET prev == SumValues(SubSeq(arr, 1, i - 1))
    IN  [color |-> arr[i].color, from |-> prev, to |-> prev + arr[i].value]

\* the segments of the conic-gradient of the CSS donut chart
ConicGradient(assets) ==
    [i \in 1..Len(assets) |-> ConicSegment(assets, i)]

(***************************************************************************)
(* WealthChart.  maxVal and the y coordinates are not integers: a number   *)
(* is kept as the fraction num/den of two integers, den > 0 wherever the   *)
(* source does not divide by zero.                                         *)
(***************************************************************************)
height == 250
width == 500
padding == 20

Max(a, b) == IF a >= b THEN a ELSE b

\* the largest value of the projection, the baselines left out
RECURSIVE ProjectionMaxValueOnly(_)
ProjectionMaxValueOnly(data) ==
    IF Len(data) = 1 THEN data[1].value
    ELSE Max(ProjectionMaxValueOnly(SubSeq(data, 1, Len(data) - 1)),
             data[Len(data)].value)

\* Math.max(...data.map(d => Math.max(d.value, d.baseline)))
RECURSIVE ProjectionMax(_)
ProjectionMax(data) ==
    IF Len(data) = 1 THEN Max(data[1].value, data[1].baseline)
    ELSE Max(ProjectionMax(SubSeq(data, 1, Len(data) - 1)),
             Max(data[Len(data)].value, data[Len(data)].baseline))

\* const maxVal = ... * 1.1
maxVal(data) == [num |-> ProjectionMax(data) * 11, den |-> 10]

\* getX = index => padding + (index * (width - 2 * padding) / (data.length - 1))
getX(data, index) ==
    [num |-> padding * (Len(data) - 1) + index * (width - 2 * padding),
     den |-> Len(data) - 1]

\* getY = value => height - padding - (value / maxVal) * (height - 2 * padding)
getY(data, value) ==
    LET m == maxVal(data)
    IN  [num |-> (height - padding) * m.num - value * m.den * (height - 2 * padding),
         den |-> m.num]

\* a chart for an id misspelt in the last test
WealthChartMisspelt(strategy) ==
    IF strategy.id = "conservative" THEN "bar"
    ELSE IF strategy.id = "balanced" THEN "area"
    ELSE IF strategy.id = "agressive" THEN "line"
    ELSE "null"

\* what WealthChart returns: the <svg> of the bar chart, of the stacked area
\* chart or of the curved line chart, or null
WealthChart(strategy) ==
    IF strategy.id = "conservative" THEN "bar"
    ELSE IF strategy.id = "balanced" THEN "area"
    ELSE IF strategy.id = "aggressive" THEN "line"
    ELSE "null"

(***************************************************************************)
(* The four IngestionItems of the Data Stream column, in source order:     *)
(* status={inputStep > a ? 'active' : 'waiting'} done={inputStep > d}.     *)
(***************************************************************************)
IngestionItems == <<
    [label |-> "Personal Profile",   activeAbove |-> 0, doneAbove |-> 1],
    [label |-> "Lifestyle & Habits", activeAbove |-> 1, doneAbove |-> 2],
    [label |-> "Financial Assets",   activeAbove |-> 2, doneAbove |-> 3],
    [label |-> "Goals & Risks",      activeAbove |-> 3, doneAbove |-> 3] >>

\* the status prop of item k
ItemStatus(k) ==
    IF inputStep > IngestionItems[k].activeAbove THEN "active" ELSE "waiting"

\* done={inputStep > k} for every item, the last one too
ItemDoneByPattern(k) == inputStep > k

\* the done prop of item k
ItemDone(k) == inputStep > IngestionItems[k].doneAbove

(***************************************************************************)
(* Properties.                                                             *)
(***************************************************************************)
TimelineTimers == SelectSeq(timers, LAMBDA x : x.kind = "timeline")

\* the time at which the setTimeout call of a timer was made
RegisteredAt(x) == x.due - x.delay

\* C1: the engine cannot be double-started.  At every moment the pending
\* timeline timers are those of one run: at most 12 of them, no timeline
\* action twice, all registered by the same runSimulation call; and none is
\* pending unless state is 'processing'.
C1_NoDoubleStart ==
    LET tt == TimelineTimers
    IN  /\ Len(tt) <= 12
        /\ \A i, j \in DOMAIN tt :
              /\ RegisteredAt(tt[i]) = RegisteredAt(tt[j])
              /\ (i # j => tt[i].idx # tt[j].idx)
        /\ (tt # <<>> => state = "processing")

\* the control button was clicked during a run whose 12 timers are all pending
C1_Witness ==
    /\ lastEvent = Event("runSimulation", "processing")
    /\ state = "processing"
    /\ Len(TimelineTimers) = 12

\* the 13 canned lines, in source order
CannedLines == <<
    "Initializing LifePlan Core System...",
    "Reading Personal Bio (Age, ZIP, Family History)...",
    "Analyzing Lifestyle: Diet, Exercise, Sleep patterns...",
    "Syncing Financials: Income, 401k, Debts...",
    "Data Stream Verified & Normalized.",
    "Lookup Engine: Fetching actuarial tables & market data...",
    "Mortality Engine: Calculating biological longevity...",
    "Income Engine: Projecting salary growth curves...",
    "Expenses Engine: Modeling healthcare & lifestyle inflation...",
    "Fee Engine: Optimizing tax-drag & expense ratios...",
    "Peer Engine: Benchmarking against top 10% cohort...",
    "Decumulation Engine: Generating withdrawal strategies...",
    "Strategic Roadmap Generated." >>

RunMessages == [i \in 1..Len(run) |-> run[i].message]

\* C2: the messages passed to addLog during one run are the 13 canned lines in
\* source order: at every moment of a run they are the first lines of the
\* script, none skipped, repeated or reordered; the run starts with the first
\* line, and all 13 have been logged when state is 'complete'.
C2_ScriptedLog ==
    /\ Len(run) <= 13
    /\ RunMessages = SubSeq(CannedLines, 1, Len(run))
    /\ (state = "processing" => Len(run) >= 1)
    /\ (state = "complete" => Len(run) = 13)
    /\ (logs # <<>> => logs[Len(logs)].message = RunMessages[Len(run)])

C2_Witness ==
    /\ state = "complete"
    /\ RunMessages = CannedLines

\* (state, inputStep, activeEngine, type) after each of the 13 addLog calls
ScriptedValues == <<
    <<"processing", 0, null, "info">>,
    <<"processing", 1, null, "process">>,
    <<"processing", 2, null, "process">>,
    <<"processing", 3, null, "process">>,
    <<"processing", 4, null, "success">>,
    <<"processing", 4, "lookup", "process">>,
    <<"processing", 4, "mortality", "process">>,
    <<"processing", 4, "income", "process">>,
    <<"processing", 4, "expenses", "process">>,
    <<"processing", 4, "fees", "process">>,
    <<"processing", 4, "peers", "process">>,
    <<"processing", 4, "decum", "process">>,
    <<"complete", 4, null, "success">> >>

ScriptedRun ==
    [i \in 1..13 |->
        [state |-> ScriptedValues[i][1], inputStep |-> ScriptedValues[i][2],
         activeEngine |-> ScriptedValues[i][3], message |-> CannedLines[i],
         type |-> ScriptedValues[i][4]]]

\* C3: the timeline is deterministic and independent of user input.  Every run,
\* the first and each one after a reset, whatever the user did before or does
\* during it, goes through the same sequence of (state, inputStep,
\* activeEngine, message, type): what a run has done so far is always an
\* initial part of one fixed sequence, the engine's values during a run are
\* those of the last entry, and a complete run has done all of it.
C3_Deterministic ==
    /\ Len(run) <= 13
    /\ run = SubSeq(ScriptedRun, 1, Len(run))
    /\ (state # "idle" =>
          /\ run # <<>>
          /\ <<state, inputStep, activeEngine>> =
                <<run[Len(run)].state, run[Len(run)].inputStep,
                  run[Len(run)].activeEngine>>)
    /\ (state = "complete" => run = ScriptedRun)

\* a second run is complete, with a scan and a dashboard during it
C3_Witness ==
    /\ state = "complete"
    /\ run = ScriptedRun
    /\ now >= 18000
    /\ isScanning
    /\ selectedStrategy # NoStrategy

\* C4: a run cannot be cancelled.  A click of the control button while state is
\* 'processing' leaves state, logs, activeEngine, inputStep and
\* selectedStrategy unchanged and cancels (and adds) no timer.
C4_NoCancel ==
    [][ (state = "processing" /\ RunSimulation) =>
            UNCHANGED <<state, logs, activeEngine, inputStep, selectedStrategy,
                        timers>> ]_vars

\* the button was clicked in the middle of a run, with a dashboard open
C4_Witness ==
    /\ lastEvent = Event("runSimulation", "processing")
    /\ state = "processing"
    /\ activeEngine = "income"
    /\ selectedStrategy # NoStrategy
    /\ Len(logs) = 5

\* the ids of the 7 EngineBlocks, in the order the timeline activates them
Modules == <<"lookup", "mortality", "income", "expenses", "fees", "peers", "decum">>

\* isActive={activeEngine === '<id>'} of the EngineBlock of module m
isActive(m) == activeEngine = m

\* the modules a run has activated, in order
Activated ==
    LET hl == SelectSeq(run, LAMBDA e : e.activeEngine # null)
    IN  [i \in 1..Len(hl) |-> hl[i].activeEngine]

C6_Terminates ==
    /\ (state = "processing") ~> (state = "complete")
    /\ [][ (state = "complete" /\ state' # "complete") => RunSimulation ]_vars

\* a run was launched and is complete, the user having clicked during it
C6_Witness ==
    /\ state = "complete"
    /\ timers = <<>>
    /\ Len(run) = 13
    /\ selectedStrategy # NoStrategy

\* C7: nothing persists across a reset.  A click of the control button in
\* state 'complete' restores the initial values of the component (state
\* 'idle', no logs, activeEngine null, inputStep 0, selectedStrategy null) and
\* schedules no timer.
C7_ResetRestoresInit ==
    [][ (state = "complete" /\ RunSimulation) =>
            /\ state' = "idle"
            /\ logs' = <<>>
            /\ activeEngine' = null
            /\ inputStep' = 0
            /\ selectedStrategy' = NoStrategy
            /\ timers' = timers ]_vars

\* launch -> complete -> reset has happened
C7_Witness ==
    /\ lastEvent = Event("runSimulation", "complete")
    /\ Len(run) = 13
    /\ <<state, logs, activeEngine, inputStep, selectedStrategy>> =
          <<"idle", <<>>, null, 0, NoStrategy>>

\* C8: displayed results are fixtures only.  selectedStrategy is null or equal,
\* field by field, to one of the three records of STRATEGIES, and after a
\* click of a strategy card it is the record of that card.
C8_FixturesOnly ==
    /\ \/ selectedStrategy = NoStrategy
       \/ \E key \in {"conservative", "balanced", "aggressive"} :
             selectedStrategy = STRATEGIES[key]
    /\ (lastEvent.op = "selectStrategy" =>
           /\ selectedStrategy = STRATEGIES[lastEvent.arg]
           /\ selectedStrategy.id = lastEvent.arg)

\* the third card was clicked after the first
C8_Witness ==
    /\ lastEvent = Event("selectStrategy", "aggressive")
    /\ selectedStrategy.monthlyIncome = "$11,200"
    /\ state = "complete"

\* C9: a strategy dashboard is open only while state is 'complete'.
C9_DashboardOnlyWhenComplete ==
    selectedStrategy # NoStrategy => state = "complete"

\* C10: terminalEndRef.scrollIntoView is called only by renders in which state
\* is 'processing': never by the first render, nor by a render in which state
\* is 'idle' or 'complete'.
C10_ScrollOnlyWhenProcessing ==
    /\ scrolledIn \subseteq {"processing"}
    /\ (run = <<>> => scrolledIn = {})

\* the terminal was scrolled during a run that is complete, and reset
C10_Witness ==
    /\ scrolledIn = {"processing"}
    /\ state = "idle"
    /\ Len(run) = 13

\* C11: a generation request of the SVG tool moves status from IDLE (or from
\* the result of the previous request) to LOADING and then to SUCCESS or ERROR.
\* A failed network call ends in ERROR with its error message displayed, and
\* nothing else happens: the prompt is sent to the API once per request, never
\* again after a failure, and in status ERROR nothing changes until the user
\* submits the next prompt.
C11_FailureEndsInError ==
    /\ [](status \in GenerationStatus)
    /\ [][ status' # status =>
              \/ status \in {"IDLE", "SUCCESS", "ERROR"} /\ status' = "LOADING"
              \/ status = "LOADING" /\ status' \in {"SUCCESS", "ERROR"} ]_vars
    /\ [](status = "ERROR" <=> error # NoError)
    /\ [](error # NoError => error.message \in ErrorMessages)
    /\ [](apiLog = requests)
    /\ [][ (status = "ERROR" /\ svgVars' # svgVars) =>
              \E prompt \in Prompts : GenerateSvg(prompt) ]_vars

\* the second request failed after the first had succeeded
C11_Witness ==
    /\ status = "ERROR"
    /\ error = [message |-> "Failed to fetch"]
    /\ Len(requests) = 2
    /\ currentSvg # NoSvg

\* C12: state changes only along the cycle idle -> processing (a click of the
\* control button in idle) -> complete (the last timeline action) -> idle (a
\* click of the control button in complete).
C12_StateCycle ==
    [][ state' # state =>
          \/ state = "idle" /\ state' = "processing" /\ RunSimulation
          \/ /\ state = "processing"
             /\ state' = "complete"
             /\ \E k \in DOMAIN timers :
                   TimelineAction(k) /\ timers[k].idx = Len(timeline)
          \/ state = "complete" /\ state' = "idle" /\ RunSimulation ]_vars

\* the cycle was closed and a second run launched
C12_Witness ==
    /\ lastEvent = Event("runSimulation", "idle")
    /\ state = "processing"
    /\ now >= 9000

\* C13: the timeline actions of a run take effect in increasing order of t.
\* The delays of the timeline increase; while state is 'processing' the
\* pending timeline timers are exactly the actions the current run has not
\* done yet, in timeline order; and while state is 'idle' or 'complete' no
\* timeline timer is pending, so that none of an earlier run is left to
\* disturb the next launch.
C13_TimersInOrder ==
    LET tt == TimelineTimers
        done == Len(run) - 1
    IN  /\ \A i, j \in DOMAIN timeline : i < j => timeline[i].t < timeline[j].t
        /\ (state \in {"idle", "complete"} => tt = <<>>)
        /\ (state = "processing" =>
              [i \in 1..Len(tt) |-> tt[i].idx] =
                 [i \in 1..(Len(timeline) - done) |-> done + i])

\* a second run, launched late after a reset, with overdue timers waiting
C13_Witness ==
    /\ state = "processing"
    /\ Len(run) = 4
    /\ now >= 12000
    /\ \E k \in DOMAIN timers : timers[k].due < now

\* C14: whenever state is 'idle' the engine shows no trace of a run: logs is
\* empty, inputStep is 0 and activeEngine is null.
C14_IdleIsClean ==
    state = "idle" => (logs = <<>> /\ inputStep = 0 /\ activeEngine = null)

\* idle again after two launch/reset cycles
C14_Witness ==
    /\ state = "idle"
    /\ lastEvent = Event("runSimulation", "complete")
    /\ now >= 18000

\* C15: data ingestion precedes module processing.  inputStep stays within
\* 0..4, rises by one at a time during a run and falls only to 0, by the reset;
\* a module is highlighted only while state is 'processing' and inputStep is
\* 4; and when state is 'complete', inputStep is 4 and activeEngine is null.
C15_IngestionFirst ==
    /\ [](inputStep \in 0..4)
    /\ [][ inputStep' # inputStep =>
              \/ /\ inputStep' = inputStep + 1
                 /\ state = "processing"
                 /\ state' = "processing"
              \/ /\ inputStep' = 0
                 /\ state = "complete"
                 /\ RunSimulation ]_vars
    /\ [](activeEngine # null => (state = "processing" /\ inputStep = 4))
    /\ [](state = "complete" => (inputStep = 4 /\ activeEngine = null))

\* the first module is highlighted in a second run, all four inputs ingested
C15_Witness ==
    /\ state = "processing"
    /\ activeEngine = "lookup"
    /\ inputStep = 4
    /\ now >= 12000

\* C16: the terminal log is bounded.  logs never holds more than 5 entries;
\* every change of logs other than the reset's clearing appends one entry,
\* the line just logged, after the (up to) 4 most recent earlier entries, which
\* keep their order.
C16_LogBounded ==
    /\ [](Len(logs) <= 5)
    /\ [][ logs' # logs =>
              \/ logs' = <<>> /\ state = "complete" /\ RunSimulation
              \/ LET n == Len(logs)
                     kept == IF n < 4 THEN n ELSE 4
                 IN  /\ Len(logs') = kept + 1
                     /\ \A i \in 1..kept : logs'[i] = logs[n - kept + i]
                     /\ logs'[kept + 1].message = run'[Len(run')].message
                     /\ logs'[kept + 1].type = run'[Len(run')].type ]_vars

\* the terminal is full and its two oldest lines have been dropped
C16_Witness ==
    /\ Len(logs) = 5
    /\ logs[1].message = "Analyzing Lifestyle: Diet, Exercise, Sleep patterns..."
    /\ logs[5].message = "Mortality Engine: Calculating biological longevity..."

\* C17: when a run is complete, logs holds exactly the last five scripted
\* lines in order, the last of type 'success'.
C17_FinalLog ==
    state = "complete" =>
        /\ [i \in 1..Len(logs) |-> logs[i].message] =
              << "Expenses Engine: Modeling healthcare & lifestyle inflation...",
                 "Fee Engine: Optimizing tax-drag & expense ratios...",
                 "Peer Engine: Benchmarking against top 10% cohort...",
                 "Decumulation Engine: Generating withdrawal strategies...",
                 "Strategic Roadmap Generated." >>
        /\ logs[Len(logs)].type = "success"

\* a second run is complete, the first one's lines gone
C17_Witness ==
    /\ state = "complete"
    /\ Len(logs) = 5
    /\ logs[1].id = ToString(9000 + 5600)
    /\ logs[5].message = "Strategic Roadmap Generated."

\* C18: the donut chart of the open dashboard is a partition of the full
\* circle: there is at least one segment, the first starts at 0%, each other
\* one starts where the one before it ends, none is empty or reversed, and
\* the last ends at 100%.  Every fixture strategy can be the one shown.
C18_DonutPartition ==
    selectedStrategy # NoStrategy =>
        LET seg == ConicGradient(selectedStrategy.assets)
        IN  /\ Len(seg) >= 1
            /\ seg[1].from = 0
            /\ \A i \in 2..Len(seg) : seg[i].from = seg[i - 1].to
            /\ \A i \in 1..Len(seg) : seg[i].from < seg[i].to
            /\ seg[Len(seg)].to = 100

\* the dashboard of the strategy with four assets is open
C18_Witness ==
    /\ selectedStrategy = STRATEGIES["balanced"]
    /\ ConicGradient(selectedStrategy.assets)[4] =
          [color |-> "#bfdbfe", from |-> 95, to |-> 100]

\* a <= b for fractions of positive denominators
FracLeq(a, b) == a.num * b.den <= b.num * a.den
Whole(n) == [num |-> n, den |-> 1]

\* C19: the coordinates of the chart of the open dashboard are defined and
\* inside the plot area: the projection has more than one point and maxVal is
\* positive, so nothing is divided by zero; getX(i) is 20 + 92*i, 20 for the
\* first point and 480 for the last; getY of every value and baseline is
\* between 20 and 230.
C19_ChartInPlotArea ==
    selectedStrategy # NoStrategy =>
        LET data == selectedStrategy.projection
            last == Len(data) - 1
        IN  /\ Len(data) > 1
            /\ maxVal(data).num > 0 /\ maxVal(data).den > 0
            /\ \A i \in 0..last :
                  LET x == getX(data, i)
                  IN  x.den > 0 /\ x.num = (20 + 92 * i) * x.den
            /\ getX(data, 0).num = 20 * getX(data, 0).den
            /\ getX(data, last).num = 480 * getX(data, last).den
            /\ \A i \in 1..Len(data) :
                  \A v \in {data[i].value, data[i].baseline} :
                     LET y == getY(data, v)
                     IN  /\ y.den > 0
                         /\ FracLeq(Whole(20), y)
                         /\ FracLeq(y, Whole(230))

\* the chart whose baseline rises far above its values is shown
C19_Witness ==
    /\ selectedStrategy = STRATEGIES["conservative"]
    /\ ProjectionMax(selectedStrategy.projection) = 390
    /\ getY(selectedStrategy.projection, 390) = [num |-> 167700, den |-> 4290]

\* C20: WealthChart renders a chart for every strategy that can be selected:
\* the bar chart for id 'conservative', the area chart for 'balanced', the
\* curved line chart for 'aggressive', and null only for another id; every
\* record of STRATEGIES has the id of its key; so the chart of an open
\* dashboard is never empty, and it is the chart of the card clicked.
C20_ChartForEveryStrategy ==
    /\ \A key \in StrategyKeys : STRATEGIES[key].id = key
    /\ \A key \in StrategyKeys : WealthChart(STRATEGIES[key]) # "null"
    /\ \A id \in StrategyKeys \cup {"null", "agressive", ""} :
          (WealthChart([id |-> id]) = "null") <=>
             (id \notin {"conservative", "balanced", "aggressive"})
    /\ (selectedStrategy # NoStrategy =>
          WealthChart(selectedStrategy) \in {"bar", "area", "line"})
    /\ (lastEvent.op = "selectStrategy" =>
          WealthChart(selectedStrategy) =
             (CASE lastEvent.arg = "conservative" -> "bar"
                [] lastEvent.arg = "balanced" -> "area"
                [] lastEvent.arg = "aggressive" -> "line"))

\* the third card was clicked and the curved line chart is shown
C20_Witness ==
    /\ lastEvent = Event("selectStrategy", "aggressive")
    /\ WealthChart(selectedStrategy) = "line"

\* C21: log entries are uniquely identified: any two entries of logs have
\* different ids.
C21_UniqueLogIds ==
    \A i, j \in DOMAIN logs : i # j => logs[i].id # logs[j].id

\* C22: opening or closing a strategy dashboard touches only
\* selectedStrategy.  A click of a strategy card, of the X button or of 'Close
\* View' leaves state, logs, activeEngine and inputStep unchanged, schedules
\* and cancels no timer, and does not scroll the terminal.
C22_DashboardFrame ==
    [][ ( \/ \E key \in StrategyKeys : SelectStrategy(key)
          \/ \E button \in CloseButtons : CloseDashboard(button) ) =>
            UNCHANGED <<state, logs, activeEngine, inputStep, timers, scrolledIn>>
      ]_vars

\* a dashboard was opened and closed in the middle of a run
C22_Witness ==
    /\ lastEvent = Event("closeDashboard", "")
    /\ selectedStrategy = NoStrategy
    /\ state = "processing"
    /\ activeEngine = "fees"
    /\ Len(TimelineTimers) = 3

ScanTimers == SelectSeq(timers, LAMBDA x : x.kind = "scan")

\* C23: a scan cannot be triggered again while it runs.  While isScanning is
\* true neither widget button can call triggerScan; at most one scan timer is
\* pending, and one is pending exactly while isScanning is true; onExplore
\* is not called while the scan runs and has been called exactly once when
\* its timer has fired.
C23_NoRetrigger ==
    /\ Len(ScanTimers) <= 1
    /\ (isScanning <=> Len(ScanTimers) = 1)
    /\ (isScanning => ~ENABLED (\E button \in ScanButtons : triggerScan(button)))
    /\ explored \in {0, 1}
    /\ (isScanning => explored = 0)
    /\ (lastEvent.op = "scanTimeout" => (~isScanning /\ explored = 1))

\* a second scan has ended, the engine never started
C23_Witness ==
    /\ lastEvent = Event("scanTimeout", "")
    /\ explored = 1
    /\ now >= 3000
    /\ state = "idle"
    /\ run = <<>>

\* C24: every scan ends.  When every due timer eventually fires, isScanning
\* returns to false after triggerScan has set it; onExplore is called in the
\* step that ends the scan, once, and not before; and the widget can then be
\* triggered again.
C24_ScanEnds ==
    /\ isScanning ~> ~isScanning
    /\ [](isScanning => explored = 0)
    /\ [][ (isScanning /\ ~isScanning') => explored' = 1 ]_vars
    /\ [][ (explored' # explored /\ explored' # 0) =>
              (isScanning /\ ~isScanning' /\ explored' = explored + 1) ]_vars
    /\ []( (~isScanning /\ now + ScanDelay <= MaxTime) =>
              ENABLED (\E button \in ScanButtons : triggerScan(button)) )

\* the widget was triggered a third time
C24_Witness ==
    /\ lastEvent = Event("triggerScan", "")
    /\ isScanning
    /\ now >= 3000

\* C25: a scan of the widget never starts or alters the engine.  The click
\* that triggers it and the callback that ends it leave state, logs,
\* inputStep, activeEngine and selectedStrategy unchanged, schedule no
\* timeline timer and do not scroll the terminal; the callback only calls
\* onExplore, which is scrollToEngine.
C25_ScanLeavesEngine ==
    [][ ( \/ \E button \in ScanButtons : triggerScan(button)
          \/ \E k \in DOMAIN timers : ScanTimeout(k) ) =>
            /\ UNCHANGED <<state, logs, inputStep, activeEngine, selectedStrategy>>
            /\ UNCHANGED <<scrolledIn, run>>
            /\ SelectSeq(timers', LAMBDA x : x.kind = "timeline") = TimelineTimers
      ]_vars

\* a scan ended while the timeline was running
C25_Witness ==
    /\ lastEvent = Event("scanTimeout", "")
    /\ state = "processing"
    /\ activeEngine = "mortality"
    /\ Len(TimelineTimers) = 6

\* C26: the four data-ingestion items advance in order.  An item is done only
\* if it is active; item k+1 is active exactly when item k is done; at most
\* one item is active and not done; and all four are done when inputStep is 4.
C26_IngestionOrder ==
    /\ \A k \in 1..4 : ItemDone(k) => ItemStatus(k) = "active"
    /\ \A k \in 1..3 : (ItemStatus(k + 1) = "active") <=> ItemDone(k)
    /\ Cardinality({ k \in 1..4 : ItemStatus(k) = "active" /\ ~ItemDone(k) }) <= 1
    /\ (inputStep = 4 => \A k \in 1..4 : ItemDone(k))

\* the third item is being read, the fourth waits
C26_Witness ==
    /\ inputStep = 3
    /\ ItemStatus(3) = "active" /\ ~ItemDone(3)
    /\ ItemStatus(4) = "waiting"
    /\ ItemDone(2)

====
